---- MODULE Spec2Model ----
(***************************************************************************)
(* Model of lib/ui.js (class UI, exported as a singleton): the event hub   *)
(* built on atom's Emitter / Disposable / CompositeDisposable, the         *)
(* module-level delayNext flag, the project-list tracker setProjects, the  *)
(* theme-brightness detector checkMotif, the tree-view offset patch        *)
(* fixOffset, the workspace observers of observe and the one-shot waiters  *)
(* waitToSave and waitToOpen.                                              *)
(*                                                                         *)
(* JavaScript values are encoded as records tagged with their type, so     *)
(* that `undefined`, booleans, strings and arrays can sit in one variable. *)
(* Project paths are sequences of characters, so that                      *)
(* Array.prototype.join is computed as concatenation rather than assumed   *)
(* injective.                                                              *)
(***************************************************************************)
EXTENDS Integers, Sequences, FiniteSets, TLC

(* ------------------------------ bounds --------------------------------- *)
MaxHandles == 2
MaxPending == 2
MaxProjects == 2
MaxInits == 1
MaxRules == 2
MaxEditors == 1
MaxDocs == 1
MaxWaiters == 2
MaxPatches == 3

(* ------------------------------ inputs --------------------------------- *)
Handlers == {"h1", "h2"}
HubEvents == {"open-file", "open-project"}
ProjectEvents == {"projects-available", "projects-changed", "projects-emptied"}
MotifEvents == {"motif-changed"}
ObserveEvents == {"open-archive", "open-editor", "open-blank", "save-new-file"}
EventNames == HubEvents \cup ProjectEvents \cup MotifEvents \cup ObserveEvents

NL == "\n"
PathA == <<"a">>
PathB == <<"b">>
PathANLB == <<"a", NL, "b">>
Paths == {PathA, PathB, PathANLB}

(* ---------------------------- JS values -------------------------------- *)
Undefined == [t |-> "undefined"]
Bool(b) == [t |-> "boolean", v |-> b]
Arr(s) == [t |-> "array", v |-> s]
Str(s) == [t |-> "string", v |-> s]
Change(f, to) == [t |-> "object", from |-> f, to |-> to]
Null == [t |-> "null"]
Thrown == [t |-> "thrown"]

VARIABLES
    delayNext,
    emitter,
    disposables,
    handles,
    immediates,
    projects,
    lightTheme,
    editors,
    waiters,
    microtasks,
    tops,
    patches,
    restoreOffset,
    retired,
    log,
    emitted,
    error,
    op

vars == <<delayNext, emitter, disposables, handles, immediates, projects, lightTheme,
          editors, waiters, microtasks, tops, patches, restoreOffset, retired,
          log, emitted, error, op>>

(* ------------------------- sequence helpers ---------------------------- *)
RECURSIVE SeqsUpTo(_, _)
SeqsUpTo(S, n) ==
    IF n = 0 THEN {<<>>}
    ELSE LET shorter == SeqsUpTo(S, n - 1)
         IN shorter \cup {Append(s, x) : s \in {q \in shorter : Len(q) = n - 1}, x \in S}

RemoveAt(s, i) == SubSeq(s, 1, i - 1) \o SubSeq(s, i + 1, Len(s))

(* ------------------------------ Emitter -------------------------------- *)
NoHandlers == [e \in EventNames |-> <<>>]

(* The emitter in use is never a disposed one; the disposed flag of an     *)
(* emitter is kept with the handles bound to it (field live).              *)
NewEmitter == [handlersByEventName |-> NoHandlers, disposed |-> FALSE]

NewCompositeDisposable == [members |-> {}, disposed |-> FALSE]

(* The releases of the host's event-kit differ in how Emitter.off takes a  *)
(* function out of a list: indexOf/splice of its first occurrence, or a    *)
(* rebuilt list without any occurrence of it.                              *)
EventKits == {"splice", "filter"}

(* A function value: a client handler h itself (w = 0), or the closure     *)
(* created by subscribe around it (w = index of the creating call).        *)
Plain(h) == [h |-> h, w |-> 0]
Wrapped(h, k) == [h |-> h, w |-> k]

(* ------------------------ the program state ---------------------------- *)
(* Operations are state transformers on a record of the program's fields,  *)
(* so that a method that calls other methods is the composition of them.   *)
Cur ==
    [delayNext |-> delayNext, emitter |-> emitter, disposables |-> disposables,
     handles |-> handles, immediates |-> immediates, projects |-> projects,
     lightTheme |-> lightTheme, editors |-> editors, waiters |-> waiters,
     microtasks |-> microtasks, tops |-> tops, patches |-> patches,
     restoreOffset |-> restoreOffset, retired |-> retired,
     log |-> log, emitted |-> emitted, error |-> error]

(* --------------------- child scopes of the waiters --------------------- *)
(* A text editor of the host: its path (empty while it has none), whether  *)
(* it was destroyed, and the listeners on its two signals, each listener   *)
(* named by the waiter that added it.  A value handed to handlers refers   *)
(* to an editor object by its index.                                       *)
FileNames == {"x.js", "y.js"}
NewEditor(path) ==
    [path |-> path, destroyed |-> FALSE, onDidChangePath |-> <<>>, onDidDestroy |-> <<>>]
EditorRef(i) == [t |-> "editor", id |-> i]

(* editor.getPath() / editor.getFileName(): empty for none.                *)
FileNameOf(s, e) == IF "id" \in DOMAIN e THEN s.editors[e.id].path ELSE e.name

(* The closure a waiter subscribes or listens with is named after the      *)
(* waiter call that made it.                                               *)
WaiterNames == <<"w1", "w2", "w3", "w4">>
IsWaiterFn(h) == \E n \in 1..Len(WaiterNames) : WaiterNames[n] = h
WaiterOf(h) == CHOOSE n \in 1..Len(WaiterNames) : WaiterNames[n] = h

CdToken(w) == [kind |-> "cd", n |-> w]
PatchToken(p) == [kind |-> "patch", n |-> p]

Without(l, w) == LET Keep(x) == x # w IN SelectSeq(l, Keep)

(* CompositeDisposable.remove: nothing on a disposed set.                  *)
SetRemove(s, m) ==
    IF s.disposables.disposed THEN s
    ELSE [s EXCEPT !.disposables.members = @ \ {m}]

(* CompositeDisposable.add: nothing on a disposed set.                     *)
SetAdd(s, m) ==
    IF s.disposables.disposed THEN s
    ELSE [s EXCEPT !.disposables.members = @ \cup {m}]

(* Variant: the child scope holds no member that detaches it.              *)
DisposeCdNoDetach(s, w) ==
    IF s.waiters[w].disposed THEN s
    ELSE LET s1 == [s EXCEPT !.waiters[w].disposed = TRUE]
             i == s.waiters[w].editor
         IN IF s.waiters[w].kind = "save"
            THEN [s1 EXCEPT !.editors[i].onDidDestroy = Without(@, w),
                            !.editors[i].onDidChangePath = Without(@, w)]
            ELSE s1

(* Variant: disposing the child scope leaves the editor's listeners on.    *)
DisposeCdKeepListeners(s, w) ==
    IF s.waiters[w].disposed THEN s
    ELSE SetRemove([s EXCEPT !.waiters[w].disposed = TRUE], CdToken(w))

(* cd.dispose() of the child scope of waiter w: once only; its members in  *)
(* order of insertion: the Disposable that takes cd out of the set in use, *)
(* then, for waitToSave, the editor's destroyed and path-changed listeners.*)
DisposeCd(s, w) ==
    IF s.waiters[w].disposed THEN s
    ELSE LET s1 == SetRemove([s EXCEPT !.waiters[w].disposed = TRUE], CdToken(w))
             i == s.waiters[w].editor
         IN IF s.waiters[w].kind = "save"
            THEN [s1 EXCEPT !.editors[i].onDidDestroy = Without(@, w),
                            !.editors[i].onDidChangePath = Without(@, w)]
            ELSE s1

(* resolve(v) of the waiter's promise: the first call settles it, and      *)
(* queues the continuation attached by observe if there is one.            *)
Resolve(s, w, v) ==
    IF s.waiters[w].resolved.t # "null" THEN s
    ELSE [s EXCEPT !.waiters[w].resolved = v,
                   !.microtasks = IF s.waiters[w].then
                                  THEN Append(@, [w |-> w, file |-> v, editor |-> s.waiters[w].editor])
                                  ELSE @]

Listened(s, w, ev, arg) ==
    [s EXCEPT !.log = Append(@, [h |-> WaiterNames[w], ev |-> ev, arg |-> arg, reg |-> 0,
                                 old |-> s.waiters[w].old, mode |-> "listener"])]

(* waitToSave's listeners on the editor.                                   *)
DestroyListener(s, w) == DisposeCd(Listened(s, w, "did-destroy", Undefined), w)
PathListener(s, w, file) == Resolve(DisposeCd(Listened(s, w, "did-change-path", file), w), w, file)

(* The closure waitToOpen hands to observeFiles.                           *)
OpenListener(s, w, editor) ==
    IF FileNameOf(s, editor) = s.waiters[w].filename
    THEN Resolve(DisposeCd(s, w), w, editor)
    ELSE s

(* Running handler h with one argument: a client handler changes nothing   *)
(* of the UI object, a waiter's closure does its work.                     *)
Invoke(s, h, arg) == IF IsWaiterFn(h) THEN OpenListener(s, WaiterOf(h), arg) ELSE s

(* ---------------------------- style patch ------------------------------ *)
(* Disposable.dispose of the p-th restoring capability made by fixOffset:  *)
(* once only, it writes the captured offset back to its rule.              *)
DisposePatch(s, p) ==
    IF s.patches[p].disposed THEN s
    ELSE [s EXCEPT !.patches[p].disposed = TRUE,
                   !.tops[s.patches[p].rule] = s.patches[p].offset]

(* ------------------------ Emitter operations --------------------------- *)
(* Variant: the function is put at the front of the list (unshift).       *)
EmitterOnUnshift(s, ev, fn) ==
    LET k == Len(s.handles) + 1
        hs == s.emitter.handlersByEventName
    IN [s EXCEPT
          !.emitter.handlersByEventName = [hs EXCEPT ![ev] = <<[fn |-> fn, reg |-> k]>> \o hs[ev]],
          !.handles = Append(s.handles, [live |-> TRUE, old |-> FALSE, ev |-> ev, fn |-> fn, disposed |-> FALSE])]

(* Emitter.on: push the function on the event's list and hand back a       *)
(* Disposable bound to this emitter, this event name and this function.    *)
(* A handle's field live is false once its emitter has been disposed; old  *)
(* notes that reset has been called since the subscription; reg tags the   *)
(* list entry with the call that pushed it.                                *)
EmitterOn(s, ev, fn) ==
    LET k == Len(s.handles) + 1
        hs == s.emitter.handlersByEventName
    IN [s EXCEPT
          !.emitter.handlersByEventName = [hs EXCEPT ![ev] = Append(hs[ev], [fn |-> fn, reg |-> k])],
          !.handles = Append(s.handles, [live |-> TRUE, old |-> FALSE, ev |-> ev, fn |-> fn, disposed |-> FALSE])]

(* Index of the first entry of list l holding function fn, 0 if none       *)
(* (Array.prototype.indexOf + 1).                                          *)
IndexOfFn(l, fn) ==
    IF \E i \in 1..Len(l) : l[i].fn = fn
    THEN CHOOSE i \in 1..Len(l) : l[i].fn = fn /\ \A j \in 1..(i - 1) : l[j].fn # fn
    ELSE 0

(* Variant: the function is taken out of the emitter in use, whichever     *)
(* emitter the handle was made on.                                         *)
EmitterOffAnyHub(s, live, ev, fn, kit) ==
    LET hs == s.emitter.handlersByEventName
        i == IndexOfFn(hs[ev], fn)
        Keep(e) == e.fn # fn
    IN IF i = 0 THEN s
       ELSE IF kit = "splice"
       THEN [s EXCEPT !.emitter.handlersByEventName = [hs EXCEPT ![ev] = RemoveAt(hs[ev], i)]]
       ELSE [s EXCEPT !.emitter.handlersByEventName = [hs EXCEPT ![ev] = SelectSeq(hs[ev], Keep)]]

(* Emitter.off: nothing on a disposed emitter; otherwise the function is  *)
(* taken out of the event's list by identity, as the release in use does.  *)
EmitterOff(s, live, ev, fn, kit) ==
    IF ~live THEN s
    ELSE LET hs == s.emitter.handlersByEventName
             i == IndexOfFn(hs[ev], fn)
             Keep(e) == e.fn # fn
         IN IF i = 0 THEN s
            ELSE IF kit = "splice"
            THEN [s EXCEPT !.emitter.handlersByEventName = [hs EXCEPT ![ev] = RemoveAt(hs[ev], i)]]
            ELSE [s EXCEPT !.emitter.handlersByEventName = [hs EXCEPT ![ev] = SelectSeq(hs[ev], Keep)]]

(* Variant: the handle is marked disposed but its action is not run.       *)
DisposeHandleFlagOnly(s, k, kit) == [s EXCEPT !.handles[k].disposed = TRUE]

(* Disposable.dispose of the handle returned by the k-th subscribe call.   *)
DisposeHandle(s, k, kit) ==
    IF s.handles[k].disposed THEN s
    ELSE EmitterOff([s EXCEPT !.handles[k].disposed = TRUE],
                    s.handles[k].live, s.handles[k].ev, s.handles[k].fn, kit)

(* Variant: the closure made by subscribe calls the handler at once.       *)
CallInline(s, e, ev, arg) ==
    Invoke([s EXCEPT !.log = Append(s.log, [h |-> e.fn.h, ev |-> ev, arg |-> arg, reg |-> e.reg,
                                            old |-> s.handles[e.reg].old, mode |-> "inline"])],
           e.fn.h, arg)

(* Calling one registered function with the emitted value.  A client       *)
(* handler runs inline; the closure made by subscribe only calls           *)
(* setImmediate, queueing the call of the original handler.  Field old    *)
(* notes whether the registration predates a reset at the time of the emit.*)
Call(s, e, ev, arg) ==
    LET rec == [h |-> e.fn.h, ev |-> ev, arg |-> arg, reg |-> e.reg, old |-> s.handles[e.reg].old]
    IN IF e.fn.w = 0
       THEN Invoke([s EXCEPT !.log = Append(s.log, rec @@ [mode |-> "inline"])], e.fn.h, arg)
       ELSE [s EXCEPT !.immediates = Append(s.immediates, rec @@ [kind |-> "call"])]

RECURSIVE CallAll(_, _, _, _)
CallAll(s, l, ev, arg) ==
    IF l = <<>> THEN s
    ELSE CallAll(Call(s, Head(l), ev, arg), Tail(l), ev, arg)

(* Emitter.emit: call a copy of the event's list in order with one value.  *)
(* The emission itself is noted in `emitted`, with the project list a      *)
(* handler reading the UI object would see at that moment.                 *)
EmitterEmit(s, ev, value) ==
    CallAll([s EXCEPT !.emitted = Append(s.emitted, [ev |-> ev, value |-> value, projects |-> s.projects])],
            s.emitter.handlersByEventName[ev], ev, value)

(* ------------------------------- UI ------------------------------------ *)
(* Variant: the set is replaced but the old emitter is kept in use.        *)
resetKeepingEmitter(s) == [s EXCEPT !.disposables = NewCompositeDisposable]

(* Disposing one member of the set: a waiter's child scope, the style      *)
(* patch, or a host listener, which only detaches.                         *)
DisposeMember(s, m) ==
    IF m.kind = "cd" THEN DisposeCd(s, m.n)
    ELSE IF m.kind = "patch" THEN DisposePatch(s, m.n)
    ELSE s

(* The members touch disjoint objects, so the order of their disposal      *)
(* makes no difference to the outcome.                                     *)
RECURSIVE DisposeMembers(_, _)
DisposeMembers(s, M) ==
    IF M = {} THEN s
    ELSE LET m == CHOOSE x \in M : TRUE
         IN DisposeMembers(DisposeMember(s, m), M \ {m})

(* CompositeDisposable.dispose: mark the set disposed, dispose the         *)
(* members, drop them.                                                     *)
CompositeDispose(s) ==
    IF s.disposables.disposed THEN s
    ELSE [DisposeMembers([s EXCEPT !.disposables.disposed = TRUE], s.disposables.members)
             EXCEPT !.disposables.members = {}]

(* Emitter.dispose: drop the handler table and mark the emitter disposed;  *)
(* it is the one every handle returned so far is bound to.                 *)
EmitterDispose(s) ==
    [s EXCEPT !.emitter.handlersByEventName = NoHandlers,
              !.emitter.disposed = TRUE,
              !.handles = [k \in 1..Len(s.handles) |-> [s.handles[k] EXCEPT !.live = FALSE]]]

(* The objects this.disposables / this.emitter pointed to are kept by      *)
(* their disposed flags once they are replaced.                            *)
Retire(s) ==
    [s EXCEPT !.retired = [emitters |-> @.emitters \cup {s.emitter.disposed},
                           sets |-> @.sets \cup {s.disposables.disposed}]]

(* Variant: fresh objects are installed over undisposed ones.              *)
resetWithoutDispose(s) ==
    [Retire(s) EXCEPT !.disposables = NewCompositeDisposable, !.emitter = NewEmitter]

(* Variant: reset also clears the tracked state as init does.              *)
resetAndClear(s) ==
    [Retire(EmitterDispose(CompositeDispose(s)))
        EXCEPT !.disposables = NewCompositeDisposable, !.emitter = NewEmitter,
               !.projects = Arr(<<>>), !.lightTheme = Bool(FALSE)]

(* UI.reset: dispose the set and the emitter, install fresh ones.          *)
reset(s) ==
    [Retire(EmitterDispose(CompositeDispose(s)))
        EXCEPT !.disposables = NewCompositeDisposable, !.emitter = NewEmitter]

(* UI.init: clear the tracked state and add the two host listeners.        *)
init(s) ==
    LET n == Cardinality({m \in s.disposables.members : m.kind = "onDidChangePaths"}) + 1
    IN [s EXCEPT !.projects = Arr(<<>>),
                 !.lightTheme = Bool(FALSE),
                 !.disposables.members = @ \cup {[kind |-> "onDidChangePaths", n |-> n],
                                                 [kind |-> "onDidChangeActiveThemes", n |-> n]}]

(* Variant: the flag is read but never cleared.                            *)
subscribeStickyDelay(s, ev, h) ==
    LET k == Len(s.handles) + 1
        handler == IF s.delayNext THEN Wrapped(h, k) ELSE Plain(h)
    IN EmitterOn(s, ev, handler)

(* UI.subscribe *)
subscribe(s, ev, h) ==
    LET k == Len(s.handles) + 1
        handler == IF s.delayNext THEN Wrapped(h, k) ELSE Plain(h)
    IN EmitterOn([s EXCEPT !.delayNext = FALSE], ev, handler)

(* UI.emit: the emitter is given the spread argument list, of which it     *)
(* passes on the first element.                                            *)
emit(s, ev, args) ==
    EmitterEmit(s, ev, IF Len(args) > 0 THEN args[1] ELSE Undefined)

(* get UI.delay *)
delay(s) == [s EXCEPT !.delayNext = TRUE]

onOpenFile(s, fn) == subscribe(s, "open-file", fn)

(* An open text editor as observeFiles reads it: its file name, empty      *)
(* when the editor has no file.                                            *)
EditorNames == {"", "x.js"}
Editor(name) == [t |-> "editor", name |-> name]

RECURSIVE CallDirect(_, _, _)
CallDirect(s, fn, eds) ==
    IF eds = <<>> THEN s
    ELSE LET e == Head(eds)
             rec == [h |-> fn, ev |-> "observeFiles", arg |-> e, reg |-> 0,
                     old |-> FALSE, mode |-> "direct"]
         IN CallDirect(IF FileNameOf(s, e) # ""
                       THEN Invoke([s EXCEPT !.log = Append(s.log, rec)], fn, e)
                       ELSE s,
                       fn, Tail(eds))

(* UI.observeFiles: call fn on every open editor that has a file name,     *)
(* then subscribe it to open-file.                                         *)
observeFiles(s, fn, eds) == onOpenFile(CallDirect(s, fn, eds), fn)

(* Array.prototype.join over strings held as character sequences.          *)
RECURSIVE Join(_, _)
Join(a, sep) ==
    IF Len(a) = 0 THEN <<>>
    ELSE IF Len(a) = 1 THEN a[1]
    ELSE a[1] \o sep \o Join(Tail(a), sep)

emitProjectsAvailable(s) == emit(s, "projects-available", <<>>)
emitProjectsEmptied(s) == emit(s, "projects-emptied", <<>>)
emitProjectsChanged(s, x) == emit(s, "projects-changed", <<x>>)
emitMotifChanged(s, x) == emit(s, "motif-changed", <<x>>)

(* Variant: projects-changed is emitted ahead of the other event.          *)
setProjectsChangedFirst(s, to) ==
    LET from == s.projects
    IN IF from.t # "array" THEN [s EXCEPT !.error = "TypeError"]
       ELSE IF Join(from.v, <<NL>>) # Join(to, <<NL>>)
       THEN LET s1 == [s EXCEPT !.projects = Arr(to)]
                s2 == emitProjectsChanged(s1, Change(from.v, to))
            IN IF Len(to) # 0 THEN emitProjectsAvailable(s2) ELSE emitProjectsEmptied(s2)
       ELSE s

(* UI.setProjects; reading .join of an undefined project list throws.      *)
setProjects(s, to) ==
    LET from == s.projects
    IN IF from.t # "array" THEN [s EXCEPT !.error = "TypeError"]
       ELSE IF Join(from.v, <<NL>>) # Join(to, <<NL>>)
       THEN LET s1 == [s EXCEPT !.projects = Arr(to)]
                s2 == IF Len(to) # 0 THEN emitProjectsAvailable(s1) ELSE emitProjectsEmptied(s1)
            IN emitProjectsChanged(s2, Change(from.v, to))
       ELSE s

(* ------------------------- theme brightness ---------------------------- *)
(* The document's style sheets as checkMotif reads them: each sheet has    *)
(* the source path of its owner node and its rules; a rule has a selector  *)
(* and, when its text holds an rgb(...) sample, the sample's channels.     *)
ColoursLess == "colours.less"
Colours == {<<254, 0, 0>>, <<255, 0, 0>>}
CheckSelector == ".theme-colour-check"
Rules ==
    {[selectorText |-> sel, rgb |-> c] :
        sel \in {CheckSelector, ".other"}, c \in {Null} \cup {Arr(x) : x \in Colours}}
Sheets == {[sourcePath |-> p, cssRules |-> rs] : p \in {ColoursLess, "other.less"}, rs \in SeqsUpTo(Rules, MaxRules)}
OtherSheet == [sourcePath |-> "other.less", cssRules |-> <<>>]
StyleDocs == {<<>>} \cup {<<sh>> : sh \in Sheets} \cup {<<OtherSheet, sh>> : sh \in Sheets}

(* The readings a queued checkMotif takes: a light or a dark sample, or    *)
(* none.                                                                   *)
ThemeDocs ==
    {<<>>} \cup {<<[sourcePath |-> ColoursLess,
                    cssRules |-> <<[selectorText |-> CheckSelector, rgb |-> Arr(c)]>>]>> : c \in Colours}

(* UI.getStyleElement: the first sheet whose owner node has the path.      *)
getStyleElement(doc, filename) ==
    IF \E i \in 1..Len(doc) : doc[i].sourcePath = filename
    THEN doc[CHOOSE i \in 1..Len(doc) :
                /\ doc[i].sourcePath = filename
                /\ \A j \in 1..(i - 1) : doc[j].sourcePath # filename]
    ELSE Null

(* UI.getThemeColour: the first rule with the check selector decides;      *)
(* reading cssRules of a null style sheet throws.                          *)
getThemeColour(doc) ==
    LET styleSheet == getStyleElement(doc, ColoursLess)
    IN IF styleSheet = Null THEN Thrown
       ELSE LET rs == styleSheet.cssRules
            IN IF \E i \in 1..Len(rs) : rs[i].selectorText = CheckSelector
               THEN rs[CHOOSE i \in 1..Len(rs) :
                          /\ rs[i].selectorText = CheckSelector
                          /\ \A j \in 1..(i - 1) : rs[j].selectorText # CheckSelector].rgb
               ELSE Null

Max3(c) == CHOOSE m \in {c[1], c[2], c[3]} : \A i \in 1..3 : c[i] <= m
Min3(c) == CHOOSE m \in {c[1], c[2], c[3]} : \A i \in 1..3 : c[i] >= m

(* rgbToHSL(colour)[2] >= .5: lightness is (max + min) / 2 of the channels *)
(* scaled to 0..1, so the test is max + min >= 255.                        *)
IsLightColour(c) == Max3(c) + Min3(c) >= 255

(* Variant: a level trigger, emitting on every determinable reading.       *)
checkMotifLevel(s, doc) ==
    LET colour == getThemeColour(doc)
    IN IF colour = Thrown THEN [s EXCEPT !.error = "TypeError"]
       ELSE IF colour = Null THEN s
       ELSE LET isLight == Bool(IsLightColour(colour.v))
            IN emitMotifChanged([s EXCEPT !.lightTheme = isLight], isLight)

(* UI.checkMotif *)
checkMotif(s, doc) ==
    LET colour == getThemeColour(doc)
    IN IF colour = Thrown THEN [s EXCEPT !.error = "TypeError"]
       ELSE IF colour = Null THEN s
       ELSE LET isLight == Bool(IsLightColour(colour.v))
            IN IF isLight # s.lightTheme
               THEN emitMotifChanged([s EXCEPT !.lightTheme = isLight], isLight)
               ELSE s

(* --------------------------- tree-view offset -------------------------- *)
(* The rules of the document's style sheets in the order the two loops of  *)
(* fixOffset visit them.  The rule objects stay; the value of style.top of *)
(* each is the state `tops`, empty for unset.                              *)
OffsetSelector == ".list-group .icon::before, .list-tree .icon::before"
StyleRules == <<[selectorText |-> ".other"],
                [selectorText |-> OffsetSelector],
                [selectorText |-> OffsetSelector]>>
TopValues == {"", "1px", "2px"}
InitialTops == <<"1px", "1px", "2px">>
OffsetRules == {r \in 1..Len(StyleRules) : StyleRules[r].selectorText = OffsetSelector}

(* The rule the loops stop at: the first with the selector and a non-empty *)
(* top, 0 if there is none.                                                *)
MatchedRule(s) ==
    LET M == {r \in OffsetRules : s.tops[r] # ""}
    IN IF M = {} THEN 0 ELSE CHOOSE r \in M : \A q \in M : r <= q

(* Variant: the previous capability is replaced without being disposed.    *)
fixOffsetKeepPrevious(s) ==
    LET r == MatchedRule(s)
        p == Len(s.patches) + 1
    IN IF r = 0 THEN s
       ELSE SetAdd([s EXCEPT !.tops[r] = "",
                             !.patches = Append(@, [rule |-> r, offset |-> s.tops[r], disposed |-> FALSE]),
                             !.restoreOffset = p],
                   PatchToken(p))

(* UI.fixOffset: capture and clear the matched rule's top, dispose and     *)
(* take out the previous capability, install the new one.                  *)
fixOffset(s) ==
    LET r == MatchedRule(s)
        p == Len(s.patches) + 1
    IN IF r = 0 THEN s
       ELSE LET offset == s.tops[r]
                s1 == [s EXCEPT !.tops[r] = ""]
                s2 == IF s1.restoreOffset # 0
                      THEN SetRemove(DisposePatch(s1, s1.restoreOffset), PatchToken(s1.restoreOffset))
                      ELSE s1
                s3 == [s2 EXCEPT !.patches = Append(@, [rule |-> r, offset |-> offset, disposed |-> FALSE]),
                                 !.restoreOffset = p]
            IN SetAdd(s3, PatchToken(p))

(* ------------------------------ waiters -------------------------------- *)
NewWaiter(kind, i, filename, then) ==
    [kind |-> kind, editor |-> i, filename |-> filename, then |-> then,
     disposed |-> FALSE, resolved |-> Null, old |-> FALSE, saves |-> 0]

(* UI.waitToSave(editor): a child scope holding the detaching Disposable   *)
(* and the editor's two listeners is made and added to the set in use.     *)
(* `then` notes whether the caller attaches observe's continuation.        *)
waitToSave(s, i, then) ==
    LET w == Len(s.waiters) + 1
    IN SetAdd([s EXCEPT !.waiters = Append(@, NewWaiter("save", i, "", then)),
                        !.editors[i].onDidDestroy = Append(@, w),
                        !.editors[i].onDidChangePath = Append(@, w)],
              CdToken(w))

(* atom.textEditors.editors: the editors not destroyed.                    *)
RECURSIVE OpenEditorsFrom(_, _)
OpenEditorsFrom(s, i) ==
    IF i > Len(s.editors) THEN <<>>
    ELSE (IF s.editors[i].destroyed THEN <<>> ELSE <<EditorRef(i)>>) \o OpenEditorsFrom(s, i + 1)

(* UI.waitToOpen(filename): the child scope, added to the set in use, gets *)
(* the detaching Disposable only; the closure goes to observeFiles, whose  *)
(* returned handle is dropped.                                             *)
waitToOpen(s, filename) ==
    LET w == Len(s.waiters) + 1
        s1 == SetAdd([s EXCEPT !.waiters = Append(@, NewWaiter("open", 0, filename, FALSE))], CdToken(w))
    IN observeFiles(s1, WaiterNames[w], OpenEditorsFrom(s1, 1))

(* ------------------------------ observe -------------------------------- *)
emitOpenedArchive(s, x) == emit(s, "open-archive", <<x>>)
emitOpenedEditor(s, x) == emit(s, "open-editor", <<x>>)

PaneItemKinds == {"ArchiveEditor", "TextEditor"}
PaneItem(kind) == [t |-> "paneItem", constructorName |-> kind]

(* The callback observe gives to observePaneItems.                         *)
PaneItemObserver(s, item) ==
    IF item.constructorName = "ArchiveEditor" THEN emitOpenedArchive(s, item) ELSE s

(* Variant: open-editor is emitted after the other event.                  *)
TextEditorObserverEditorLast(s, i) ==
    IF s.editors[i].path # ""
    THEN emitOpenedEditor(EmitterEmit(s, "open-file", EditorRef(i)), EditorRef(i))
    ELSE waitToSave(emitOpenedEditor(EmitterEmit(s, "open-blank", EditorRef(i)), EditorRef(i)), i, TRUE)

(* The callback observe gives to observeTextEditors.                       *)
TextEditorObserver(s, i) ==
    LET s1 == emitOpenedEditor(s, EditorRef(i))
    IN IF s1.editors[i].path # ""
       THEN EmitterEmit(s1, "open-file", EditorRef(i))
       ELSE waitToSave(EmitterEmit(s1, "open-blank", EditorRef(i)), i, TRUE)

(* The continuation observe attaches to waitToSave's promise.              *)
SavedNewFile(s, t) ==
    LET s1 == EmitterEmit(s, "save-new-file",
                          [t |-> "object", file |-> t.file, editor |-> EditorRef(t.editor)])
    IN EmitterEmit(s1, "open-file", EditorRef(t.editor))

RECURSIVE ObserveEach(_, _)
ObserveEach(s, eds) ==
    IF eds = <<>> THEN s
    ELSE ObserveEach(TextEditorObserver(s, Head(eds).id), Tail(eds))

RECURSIVE ObservePaneItems(_, _)
ObservePaneItems(s, items) ==
    IF items = <<>> THEN s
    ELSE ObservePaneItems(PaneItemObserver(s, Head(items)), Tail(items))

(* UI.observe: the host calls each observer at once with what exists,      *)
(* then the two observers are added to the set in use.                     *)
observe(s, items) ==
    LET n == Cardinality({m \in s.disposables.members : m.kind = "observeTextEditors"}) + 1
        s1 == ObservePaneItems(s, items)
        s2 == ObserveEach(s1, OpenEditorsFrom(s1, 1))
    IN SetAdd(SetAdd(s2, [kind |-> "observePaneItems", n |-> n]),
              [kind |-> "observeTextEditors", n |-> n])

(* ------------------------------ actions -------------------------------- *)
Fresh == [Cur EXCEPT !.log = <<>>, !.emitted = <<>>, !.error = "none"]

Becomes(s, o) ==
    /\ delayNext' = s.delayNext
    /\ emitter' = s.emitter
    /\ disposables' = s.disposables
    /\ handles' = s.handles
    /\ immediates' = s.immediates
    /\ projects' = s.projects
    /\ lightTheme' = s.lightTheme
    /\ editors' = s.editors
    /\ waiters' = s.waiters
    /\ microtasks' = s.microtasks
    /\ tops' = s.tops
    /\ patches' = s.patches
    /\ restoreOffset' = s.restoreOffset
    /\ retired' = s.retired
    /\ log' = s.log
    /\ emitted' = s.emitted
    /\ error' = s.error
    /\ op' = o

NumWrapped(ev) == Cardinality({i \in 1..Len(emitter.handlersByEventName[ev]) : emitter.handlersByEventName[ev][i].fn.w # 0})

(* Every subscription made so far now predates a reset.                    *)
MarkOld(s) ==
    [s EXCEPT !.handles = [k \in 1..Len(s.handles) |-> [s.handles[k] EXCEPT !.old = TRUE]],
              !.waiters = [w \in 1..Len(s.waiters) |-> [s.waiters[w] EXCEPT !.old = TRUE]]]

DoReset ==
    /\ Len(handles) <= MaxHandles
    /\ Becomes(MarkOld(reset(Fresh)), [name |-> "reset"])

DoInit ==
    /\ Cardinality(disposables.members) < 2 * MaxInits
    /\ Becomes(init(Fresh), [name |-> "init"])

DoDelay ==
    /\ delayNext \in BOOLEAN
    /\ Becomes(delay(Fresh), [name |-> "delay"])

(* The subscriptions clients make: pairs of event name and handler.        *)
HubSubscriptions == {<<"open-file", "h1">>, <<"open-file", "h2">>, <<"open-project", "h1">>}
ProjectSubscriptions == {<<"projects-changed", "h1">>}
MotifSubscriptions == {<<ev, "h1">> : ev \in MotifEvents}

DoSubscribe(P) ==
    /\ Len(handles) < MaxHandles
    /\ \E p \in P :
          Becomes(subscribe(Fresh, p[1], p[2]), [name |-> "subscribe"])

DoObserveFiles ==
    /\ Len(handles) < MaxHandles
    /\ \E h \in Handlers, names \in SeqsUpTo(EditorNames, MaxEditors) :
          Becomes(observeFiles(Fresh, h, [i \in 1..Len(names) |-> Editor(names[i])]),
                  [name |-> "observeFiles"])

(* The client disposes the handle its k-th subscription returned; `fresh`  *)
(* notes that this subscription was the call just before.                  *)
DoDispose ==
    \E k \in 1..Len(handles), kit \in EventKits :
        /\ k <= MaxHandles
        /\ Becomes(DisposeHandle(Fresh, k, kit),
                   [name |-> "dispose", k |-> k,
                    fresh |-> (op.name = "subscribe" /\ k = Len(handles)),
                    again |-> handles[k].disposed])

ArgLists == {<<Str("p")>>}

DoEmit(E) ==
    \E ev \in E, args \in ArgLists :
        /\ Len(immediates) + NumWrapped(ev) <= MaxPending
        /\ Becomes(emit(Fresh, ev, args), [name |-> "emit"])

(* One turn of the host's immediate queue: the oldest queued call runs,    *)
(* a deferred handler or the checkMotif queued by a theme change, which    *)
(* reads the style sheets as they are by then.                             *)
RunImmediate ==
    /\ immediates # <<>>
    /\ LET t == Head(immediates)
           rec == [h |-> t.h, ev |-> t.ev, arg |-> t.arg, reg |-> t.reg, old |-> t.old, mode |-> "deferred"]
       IN IF t.kind = "call"
          THEN Becomes(Invoke([Fresh EXCEPT !.immediates = Tail(immediates), !.log = <<rec>>], t.h, t.arg),
                       [name |-> "immediate"])
          ELSE \E doc \in ThemeDocs :
                  Becomes(checkMotif([Fresh EXCEPT !.immediates = Tail(immediates)], doc),
                          [name |-> "immediate"])

DoSetProjects ==
    \E to \in SeqsUpTo(Paths, MaxProjects) :
        /\ Len(to) <= MaxProjects
        /\ Becomes(setProjects(Fresh, to), [name |-> "setProjects", from |-> projects, to |-> to])

(* The host reports new project paths: every listener added by init and   *)
(* not yet disposed calls setProjects with them.                           *)
RECURSIVE Times(_, _, _)
Times(n, s, to) == IF n = 0 THEN s ELSE Times(n - 1, setProjects(s, to), to)

PathListeners == {m \in disposables.members : m.kind = "onDidChangePaths"}

DidChangePaths ==
    /\ PathListeners # {}
    /\ \E to \in SeqsUpTo(Paths, MaxProjects) :
          Becomes(Times(Cardinality(PathListeners), Fresh, to),
                  [name |-> "didChangePaths", from |-> projects, to |-> to])

DoSetProjectsIn(P) ==
    \E to \in P :
        /\ Len(to) <= MaxProjects
        /\ Becomes(setProjects(Fresh, to), [name |-> "setProjects", from |-> projects, to |-> to])

(* ---- the style sheets' offset rule ---- *)
(* The top of the rule a fixOffset call would stop at, empty if none.      *)
MatchedTop == IF MatchedRule(Cur) = 0 THEN "" ELSE tops[MatchedRule(Cur)]

(* Whether this.restoreOffset holds an undisposed capability.              *)
PatchActive == restoreOffset # 0 /\ ~patches[restoreOffset].disposed

DoFixOffset ==
    /\ Len(patches) < MaxPatches
    /\ Becomes(fixOffset(Fresh),
               [name |-> "fixOffset", rule |-> MatchedRule(Cur), offset |-> MatchedTop,
                prev |-> restoreOffset, active |-> PatchActive])

(* The host or a theme writes the top of one of the offset rules.          *)
SetTop ==
    \E r \in OffsetRules, v \in TopValues :
        /\ v # tops[r]
        /\ Becomes([Fresh EXCEPT !.tops[r] = v], [name |-> "setTop"])

(* The callback init gives to onDidChangeActiveThemes.                     *)
ThemeTask ==
    [h |-> "checkMotif", ev |-> "", arg |-> Undefined, reg |-> 0, old |-> FALSE, kind |-> "checkMotif"]
ThemeChanged(s) == fixOffset([s EXCEPT !.immediates = Append(@, ThemeTask)])

RECURSIVE ThemeChangedTimes(_, _)
ThemeChangedTimes(n, s) == IF n = 0 THEN s ELSE ThemeChangedTimes(n - 1, ThemeChanged(s))

ThemeListeners == {m \in disposables.members : m.kind = "onDidChangeActiveThemes"}

(* The host reports a change of the active themes to every listener added  *)
(* by init and not yet disposed.                                           *)
DidChangeActiveThemes ==
    /\ ThemeListeners # {}
    /\ Len(immediates) + Cardinality(ThemeListeners) <= MaxPending
    /\ Len(patches) + Cardinality(ThemeListeners) <= MaxPatches
    /\ Becomes(ThemeChangedTimes(Cardinality(ThemeListeners), Fresh),
               [name |-> "didChangeActiveThemes"])

(* ---- editors of the host, waiters, observe ---- *)
TextEditorObservers == {m \in disposables.members : m.kind = "observeTextEditors"}
PaneItemObservers == {m \in disposables.members : m.kind = "observePaneItems"}

RECURSIVE ObserverTimes(_, _, _)
ObserverTimes(n, s, i) == IF n = 0 THEN s ELSE ObserverTimes(n - 1, TextEditorObserver(s, i), i)

(* The host opens a text editor, with a file or blank, and hands it to     *)
(* every text-editor observer not yet disposed.                            *)
OpenEditor ==
    \E path \in EditorNames :
        /\ Len(editors) < MaxDocs
        /\ Len(waiters) + Cardinality(TextEditorObservers) <= MaxWaiters
        /\ LET i == Len(editors) + 1
           IN Becomes(ObserverTimes(Cardinality(TextEditorObservers),
                                    [Fresh EXCEPT !.editors = Append(@, NewEditor(path))], i),
                      [name |-> "openEditor", id |-> i])

RECURSIVE PaneObserverTimes(_, _, _)
PaneObserverTimes(n, s, item) ==
    IF n = 0 THEN s ELSE PaneObserverTimes(n - 1, PaneItemObserver(s, item), item)

(* The host adds a pane item and hands it to every pane-item observer.     *)
AddPaneItem ==
    \E kind \in PaneItemKinds :
        /\ PaneItemObservers # {}
        /\ Becomes(PaneObserverTimes(Cardinality(PaneItemObservers), Fresh, PaneItem(kind)),
                   [name |-> "addPaneItem", kind |-> kind])

RECURSIVE Deliver(_, _, _, _)
Deliver(s, ws, signal, file) ==
    IF ws = <<>> THEN s
    ELSE Deliver(IF signal = "did-destroy" THEN DestroyListener(s, Head(ws))
                 ELSE PathListener(s, Head(ws), file),
                 Tail(ws), signal, file)

(* The editor's path changes: its path-changed listeners, as they stood    *)
(* when the signal was raised, are called in order with the new path.      *)
DidChangePath ==
    \E i \in 1..Len(editors), file \in FileNames :
        /\ file # editors[i].path
        /\ Becomes(Deliver([Fresh EXCEPT !.editors[i].path = file],
                           editors[i].onDidChangePath, "did-change-path", Str(file)),
                   [name |-> "didChangePath", id |-> i, file |-> file])

(* The editor is destroyed: its destroyed listeners are called.            *)
DidDestroy ==
    \E i \in 1..Len(editors) :
        /\ ~editors[i].destroyed
        /\ Becomes(Deliver([Fresh EXCEPT !.editors[i].destroyed = TRUE],
                           editors[i].onDidDestroy, "did-destroy", Undefined),
                   [name |-> "didDestroy", id |-> i])

(* The continuation of waiter w has emitted save-new-file once more.       *)
NoteSave(s, w) == [s EXCEPT !.waiters[w].saves = @ + 1]

(* The continuation of a resolved waitToSave promise runs.                 *)
RunMicrotask ==
    /\ microtasks # <<>>
    /\ Becomes(NoteSave(SavedNewFile([Fresh EXCEPT !.microtasks = Tail(microtasks)], Head(microtasks)),
                        Head(microtasks).w),
               [name |-> "microtask", w |-> Head(microtasks).w])

DoObserve ==
    \E items \in SeqsUpTo(PaneItemKinds, 1) :
        /\ Cardinality(TextEditorObservers) < MaxInits
        /\ Len(waiters) + Len(editors) <= MaxWaiters
        /\ Becomes(observe(Fresh, [k \in 1..Len(items) |-> PaneItem(items[k])]), [name |-> "observe"])

DoWaitToSave ==
    \E i \in 1..Len(editors) :
        /\ Len(waiters) < MaxWaiters
        /\ Becomes(waitToSave(Fresh, i, FALSE), [name |-> "waitToSave", w |-> Len(waiters) + 1])

DoWaitToOpen ==
    \E filename \in FileNames :
        /\ Len(waiters) < MaxWaiters
        /\ Len(handles) < MaxHandles
        /\ Becomes(waitToOpen(Fresh, filename), [name |-> "waitToOpen", w |-> Len(waiters) + 1])

(* A client emits open-file for one of the host's editors.                 *)
DoEmitOpenFile ==
    \E i \in 1..Len(editors) :
        /\ Len(immediates) + NumWrapped("open-file") <= MaxPending
        /\ Becomes(emit(Fresh, "open-file", <<EditorRef(i)>>), [name |-> "emitOpenFile", id |-> i])

(* What the style sheets hold for checkMotif: which structure is missing.  *)
SampleKind(doc) ==
    LET sh == getStyleElement(doc, ColoursLess)
    IN IF sh = Null THEN "no-sheet"
       ELSE LET cr == {i \in 1..Len(sh.cssRules) : sh.cssRules[i].selectorText = CheckSelector}
                    first == sh.cssRules[CHOOSE i \in cr : \A j \in cr : i <= j]
               IN IF cr = {} THEN "no-rule"
                  ELSE IF first.rgb = Null THEN "no-rgb"
                  ELSE IF IsLightColour(first.rgb.v) THEN "light"
                  ELSE "dark"

DoCheckMotif ==
    \E doc \in StyleDocs :
        /\ Len(doc) <= 2
        /\ Becomes(checkMotif(Fresh, doc),
                   [name |-> "checkMotif", sample |-> SampleKind(doc), was |-> lightTheme])

Init ==
    /\ delayNext = FALSE
    /\ emitter = NewEmitter
    /\ disposables = NewCompositeDisposable
    /\ handles = <<>>
    /\ immediates = <<>>
    /\ projects = Undefined
    /\ lightTheme = Undefined
    /\ editors = <<>>
    /\ waiters = <<>>
    /\ microtasks = <<>>
    /\ tops = InitialTops
    /\ patches = <<>>
    /\ restoreOffset = 0
    /\ retired = [emitters |-> {}, sets |-> {}]
    /\ log = <<>>
    /\ emitted = <<>>
    /\ error = "none"
    /\ op = [name |-> "constructor"]

Next ==
    \/ DoReset
    \/ DoDelay
    \/ DoSubscribe(HubSubscriptions)
    \/ DoObserveFiles
    \/ DoDispose
    \/ DoEmit(HubEvents)
    \/ RunImmediate

Spec == Init /\ [][Next]_vars

(* The project tracker, driven by direct calls and by the host's listener, *)
(* with its events observed by one client handler.                         *)
NextProjects ==
    \/ DoReset
    \/ DoInit
    \/ DoSubscribe(ProjectSubscriptions)
    \/ DoSetProjects
    \/ DidChangePaths

SpecProjects == Init /\ [][NextProjects]_vars

(* The brightness detector with its event observed by one client handler.  *)
NextMotif ==
    \/ DoReset
    \/ DoInit
    \/ DoSubscribe(MotifSubscriptions)
    \/ DoCheckMotif

SpecMotif == Init /\ [][NextMotif]_vars

(* The one-shot waiters called directly on the host's editors.             *)
NextWaiters ==
    \/ DoReset
    \/ OpenEditor
    \/ DoWaitToSave
    \/ DoWaitToOpen
    \/ DidChangePath
    \/ DidDestroy
    \/ DoEmitOpenFile

SpecWaiters == Init /\ [][NextWaiters]_vars

(* The workspace observers, with the events of a saved blank document      *)
(* observed by one client handler.                                         *)
ObserveSubscriptions == {<<"save-new-file", "h1">>}

NextObserve ==
    \/ DoReset
    \/ DoObserve
    \/ DoSubscribe(ObserveSubscriptions)
    \/ OpenEditor
    \/ AddPaneItem
    \/ DidChangePath
    \/ DidDestroy
    \/ RunMicrotask

SpecObserve == Init /\ [][NextObserve]_vars

(* The offset patch, driven by direct calls and by the theme listener.     *)
NextStyle ==
    \/ DoReset
    \/ DoInit
    \/ DoFixOffset
    \/ SetTop
    \/ DidChangeActiveThemes
    \/ RunImmediate

SpecStyle == Init /\ [][NextStyle]_vars

(* The life cycle: reset and init among the calls that fill the hub, the   *)
(* set and the tracked state.                                              *)
LifecyclePaths == {<<>>, <<PathA>>}

NextLifecycle ==
    \/ DoReset
    \/ DoInit
    \/ DoSubscribe(ProjectSubscriptions)
    \/ DoSetProjectsIn(LifecyclePaths)
    \/ DoFixOffset
    \/ DoWaitToOpen

SpecLifecycle == Init /\ [][NextLifecycle]_vars

(* ============================ properties =============================== *)
Regs(q) == [i \in 1..Len(q) |-> q[i].reg]
Count(q, r) == Cardinality({i \in 1..Len(q) : q[i].reg = r})
IsPlain(e) == e.fn.w = 0
IsWrapped(e) == e.fn.w # 0
Increasing(q) == \A i, j \in 1..Len(q) : i < j => q[i] < q[j]
AddedTasks(old, new) == SubSeq(new, Len(old) + 1, Len(new))

(* ----------------------------------------------------------------------- *)
(* C1: a handler registered before a reset is never invoked by an emit     *)
(* issued after that reset: no invocation, inline or deferred, is of a     *)
(* registration that predated a reset when the emit was issued.            *)
C1_NoHandlerFromBeforeReset ==
    \A i \in 1..Len(log) : ~log[i].old

(* After a reset the same handler was subscribed again to the same event   *)
(* and an emit invoked it, while the handle from before the reset is       *)
(* still undisposed.                                                       *)
C1_Witness ==
    /\ op.name = "emit"
    /\ log # <<>>
    /\ \E k \in 1..Len(handles) :
          /\ handles[k].old
          /\ ~handles[k].disposed
          /\ handles[k].ev = emitted[1].ev
          /\ handles[k].fn.h = log[1].h

(* ----------------------------------------------------------------------- *)
(* The handle k disposed by the last call came from the subscribe call     *)
(* just before it, made with the delay flag unset.                         *)
JustSubscribedAndDisposed(o, hs) ==
    /\ o.name = "dispose"
    /\ o.fresh
    /\ ~o.again
    /\ hs[o.k].fn.w = 0

(* No other live subscription on the same emitter holds handler h for the  *)
(* event of handle k.                                                      *)
SoleSubscription(k) ==
    \A j \in 1..Len(handles) :
        (j # k /\ handles[j].live /\ handles[j].ev = handles[k].ev /\ ~handles[j].disposed)
            => handles[j].fn.h # handles[k].fn.h

RemovesOwnRegistration(k) ==
    LET NotK(e) == e.reg # k
    IN emitter'.handlersByEventName =
          [emitter.handlersByEventName EXCEPT ![handles[k].ev] = SelectSeq(@, NotK)]

NotInvoked(h) ==
    /\ \A i \in 1..Len(log') : log'[i].h # h
    /\ \A i \in 1..Len(AddedTasks(immediates, immediates')) : AddedTasks(immediates, immediates')[i].h # h

AllRegisteredInvoked(ev) ==
    \A i \in 1..Len(emitter.handlersByEventName[ev]) :
        LET r == emitter.handlersByEventName[ev][i].reg
        IN Count(log', r) + Count(AddedTasks(immediates, immediates'), r) = 1

(* C2 as stated: subscribe(E, H), dispose of the returned handle, then     *)
(* emit(E) never invokes H; other handlers registered for E are still      *)
(* invoked.                                                                *)
C2_AsStated ==
    [][(JustSubscribedAndDisposed(op, handles) /\ handles[op.k].live
          /\ op'.name = "emit" /\ emitted'[1].ev = handles[op.k].ev)
        => (NotInvoked(handles[op.k].fn.h) /\ AllRegisteredInvoked(handles[op.k].ev))]_vars

(* C2 amended: the same, for a handler H that no other live subscription   *)
(* holds for E: the dispose removes exactly the registration that call     *)
(* made, a following emit(E) does not invoke H and invokes every handler   *)
(* still registered; disposing a handle a second time changes nothing.     *)
C2_DisposeThenEmit ==
    [][/\ (JustSubscribedAndDisposed(op', handles) /\ handles[op'.k].live
              /\ SoleSubscription(op'.k))
            => RemovesOwnRegistration(op'.k)
       /\ (JustSubscribedAndDisposed(op, handles) /\ handles[op.k].live
              /\ SoleSubscription(op.k)
              /\ op'.name = "emit" /\ emitted'[1].ev = handles[op.k].ev)
            => (NotInvoked(handles[op.k].fn.h) /\ AllRegisteredInvoked(handles[op.k].ev))
       /\ (op'.name = "dispose" /\ op'.again)
            => UNCHANGED <<delayNext, emitter, disposables, handles, immediates, projects, lightTheme>>]_vars

(* H was subscribed and its handle disposed at once, another handler is    *)
(* registered for the same event, and an emit of that event has run it.    *)
C2_Witness ==
    /\ op.name = "emit"
    /\ Len(log) = 1
    /\ \E k \in 1..Len(handles) :
          /\ handles[k].disposed
          /\ handles[k].live
          /\ handles[k].fn.w = 0
          /\ handles[k].ev = log[1].ev
          /\ handles[k].fn.h # log[1].h
          /\ SoleSubscription(k)

(* ----------------------------------------------------------------------- *)
(* C3: with a deferred H1 registered before an immediate H2 for E, one     *)
(* emit(E) invokes H2 once before it returns and does not invoke H1, for   *)
(* which it queues one call; a later turn of the queue invokes exactly     *)
(* the original handler of the call it takes, once, with the emitted value.*)
C3_DeferredAfterImmediate ==
    [][/\ op'.name = "emit" =>
            LET L == emitter.handlersByEventName[emitted'[1].ev]
            IN \A i, j \in 1..Len(L) :
                  (i < j /\ IsWrapped(L[i]) /\ IsPlain(L[j])) =>
                      /\ Count(log', L[j].reg) = 1
                      /\ Count(log', L[i].reg) = 0
                      /\ \A n \in 1..Len(log') : log'[n].mode = "inline"
                      /\ Count(immediates', L[i].reg) = Count(immediates, L[i].reg) + 1
       /\ op'.name = "immediate" =>
            LET t == Head(immediates)
            IN /\ log' = <<[h |-> handles[t.reg].fn.h, ev |-> handles[t.reg].ev, arg |-> t.arg,
                            reg |-> t.reg, old |-> t.old, mode |-> "deferred"]>>
               /\ Count(immediates', t.reg) = Count(immediates, t.reg) - 1]_vars

(* An emit has just run an immediate handler that was registered after a   *)
(* deferred one for the same event.                                        *)
C3_Witness ==
    /\ op.name = "emit"
    /\ LET L == emitter.handlersByEventName[emitted[1].ev]
       IN \E i, j \in 1..Len(L) :
             /\ i < j
             /\ IsWrapped(L[i])
             /\ IsPlain(L[j])
             /\ Count(log, L[j].reg) = 1
             /\ Count(immediates, L[i].reg) >= 1

(* ----------------------------------------------------------------------- *)
(* C4: once a handle has been disposed, or reset has disposed its hub, the *)
(* handler's original function is not invoked any more, also not by a      *)
(* deferred call that an earlier emit had scheduled (the deferred case of  *)
(* the claim; the immediate case is C2's).                                 *)
C4_DisposalCancelsDeferred ==
    \A i \in 1..Len(log) :
        log[i].mode = "deferred" =>
            (~handles[log[i].reg].disposed /\ handles[log[i].reg].live)

(* ----------------------------------------------------------------------- *)
(* C5: one emit(E) runs the non-deferred handlers registered for E in      *)
(* registration order before it returns, queues the deferred ones in       *)
(* registration order behind what was queued, each exactly once; the       *)
(* queue is served first in, first out.                                    *)
C5_EmitOrder ==
    [][/\ op'.name = "emit" =>
            LET L == emitter.handlersByEventName[emitted'[1].ev]
            IN /\ Increasing(Regs(L))
               /\ Regs(log') = Regs(SelectSeq(L, IsPlain))
               /\ \A n \in 1..Len(log') : log'[n].mode = "inline"
               /\ Len(immediates') >= Len(immediates)
               /\ SubSeq(immediates', 1, Len(immediates)) = immediates
               /\ Regs(AddedTasks(immediates, immediates')) = Regs(SelectSeq(L, IsWrapped))
       /\ op'.name = "immediate" =>
            /\ immediates' = Tail(immediates)
            /\ Regs(log') = <<Head(immediates).reg>>]_vars

(* An emit has just run two immediate handlers, the earlier registered     *)
(* one first.                                                              *)
C5_Witness ==
    /\ op.name = "emit"
    /\ Len(log) = 2
    /\ log[1].reg < log[2].reg

(* ----------------------------------------------------------------------- *)
(* C6: a subscribe call, also the one observeFiles makes, wraps its        *)
(* handler for deferred dispatch exactly when the delay flag was set as    *)
(* it started, and leaves the flag false.                                  *)
C6_DelaySingleUse ==
    [][op'.name \in {"subscribe", "observeFiles"} =>
          /\ ~delayNext'
          /\ Len(handles') = Len(handles) + 1
          /\ IsWrapped(handles'[Len(handles')]) <=> delayNext]_vars

(* The flag set by an access to delay was consumed by the subscription     *)
(* inside observeFiles, which is deferred, while the subscription before   *)
(* it is immediate.                                                        *)
C6_Witness ==
    /\ op.name = "observeFiles"
    /\ ~delayNext
    /\ Len(handles) >= 2
    /\ IsWrapped(handles[Len(handles)])
    /\ IsPlain(handles[Len(handles) - 1])

(* ----------------------------------------------------------------------- *)
(* C7: after init, setProjects(new) emits nothing and keeps the baseline   *)
(* exactly when new equals the stored sequence element by element.         *)
C7_ExactSequenceEquality ==
    (op.name = "setProjects" /\ error = "none") =>
        ((emitted = <<>> /\ projects = op.from) <=> (op.to = op.from.v))

(* ----------------------------------------------------------------------- *)
(* C8: a setProjects call that detects a difference stores the new         *)
(* sequence before anything is emitted, then emits projects-available      *)
(* (non-empty) or projects-emptied (empty), then projects-changed with     *)
(* {from, to}, and nothing else; a handler of projects-changed receives    *)
(* that payload within the call.                                           *)
C8_SetProjectsEmission ==
    (op.name = "setProjects" /\ error = "none"
        /\ Join(op.from.v, <<NL>>) # Join(op.to, <<NL>>)) =>
        /\ projects = Arr(op.to)
        /\ emitted =
              <<[ev |-> IF Len(op.to) # 0 THEN "projects-available" ELSE "projects-emptied",
                 value |-> Undefined, projects |-> Arr(op.to)],
                [ev |-> "projects-changed", value |-> Change(op.from.v, op.to),
                 projects |-> Arr(op.to)]>>
        /\ \A i \in 1..Len(log) :
              /\ log[i].ev = "projects-changed"
              /\ log[i].arg = Change(op.from.v, op.to)
              /\ log[i].mode = "inline"

(* A project list of full length was replaced by the empty one, and a      *)
(* subscribed handler of projects-changed was run.                         *)
C8_Witness ==
    /\ op.name = "setProjects"
    /\ Len(emitted) = 2
    /\ emitted[1].ev = "projects-emptied"
    /\ Len(op.from.v) = MaxProjects
    /\ Len(log) >= 1

(* ----------------------------------------------------------------------- *)
(* C9: after init, a checkMotif call with a determinable sample emits      *)
(* motif-changed, carrying the derived flag, exactly when that flag        *)
(* differs from the stored one, and stores it; otherwise it emits nothing  *)
(* and changes nothing.                                                    *)
C9_EdgeTrigger ==
    (op.name = "checkMotif" /\ op.sample \in {"light", "dark"} /\ op.was.t = "boolean") =>
        LET derived == Bool(op.sample = "light")
        IN /\ error = "none"
           /\ lightTheme = derived
           /\ IF derived # op.was
              THEN emitted = <<[ev |-> "motif-changed", value |-> derived, projects |-> projects]>>
              ELSE emitted = <<>>

(* A reading flipped the stored flag back from light to dark and the       *)
(* subscribed handler received the new flag.                               *)
C9_Witness ==
    /\ op.name = "checkMotif"
    /\ op.was = Bool(TRUE)
    /\ lightTheme = Bool(FALSE)
    /\ Len(log) = 1
    /\ log[1].arg = Bool(FALSE)

(* ----------------------------------------------------------------------- *)
(* C10: a checkMotif call that finds the style sheet, the check rule or    *)
(* the rgb sample missing completes without an error, emits nothing and    *)
(* leaves the stored flag unchanged.                                       *)
C10_AbsenceAbsorbed ==
    (op.name = "checkMotif" /\ op.sample \in {"no-sheet", "no-rule", "no-rgb"}) =>
        (error = "none" /\ emitted = <<>> /\ lightTheme = op.was)


(* ----------------------------------------------------------------------- *)
SaveWaiters == {w \in 1..Len(waiters) : waiters[w].kind = "save"}
Settled(w) == waiters[w].resolved # Null
Signalled(o, w) == o.name \in {"didChangePath", "didDestroy"} /\ o.id = waiters[w].editor
ListensOn(eds, w) ==
    \E i \in 1..Len(eds) :
        \/ \E n \in 1..Len(eds[i].onDidChangePath) : eds[i].onDidChangePath[n] = w
        \/ \E n \in 1..Len(eds[i].onDidDestroy) : eds[i].onDidDestroy[n] = w
Queued(q, w) == Cardinality({n \in 1..Len(q) : q[n].w = w})
UIState == <<delayNext, emitter, disposables, handles, immediates, projects, lightTheme,
             waiters, microtasks, tops, patches, restoreOffset, retired>>

(* C11: the future of a waitToSave waiter is settled by the first          *)
(* path-changed notification its document raises while the waiter          *)
(* listens, with that notification's path, and never again; once it is     *)
(* settled, a path-changed or destroyed notification of the document       *)
(* calls no listener of the waiter, queues nothing for it and, when no     *)
(* other waiter listens on the document, changes no state of the UI        *)
(* object; the continuation observe attaches emits save-new-file at most   *)
(* once.                                                                   *)
C11_ResolvesOnce ==
    [][\A w \in SaveWaiters :
          /\ (~Settled(w) /\ waiters'[w].resolved # Null) =>
                /\ op'.name = "didChangePath"
                /\ op'.id = waiters[w].editor
                /\ waiters'[w].resolved = Str(op'.file)
          /\ (~waiters[w].disposed /\ op'.name = "didChangePath" /\ op'.id = waiters[w].editor) =>
                waiters'[w].resolved = Str(op'.file)
          /\ Settled(w) =>
                /\ waiters'[w].resolved = waiters[w].resolved
                /\ ~ListensOn(editors, w)
                /\ \A n \in 1..Len(log') : log'[n].h # WaiterNames[w]
                /\ Queued(microtasks', w) <= Queued(microtasks, w)
                /\ (Signalled(op', w)
                       /\ \A v \in SaveWaiters : waiters[v].editor = waiters[w].editor => waiters[v].disposed)
                      => (log' = <<>> /\ UNCHANGED UIState)
          /\ waiters'[w].saves <= 1]_vars

(* The path of a blank document changed a second time, after the first     *)
(* change had settled the waiter observe made for it and save-new-file     *)
(* had been emitted; nothing was called.                                   *)
C11_Witness ==
    /\ op.name = "didChangePath"
    /\ log = <<>>
    /\ \E w \in SaveWaiters :
          /\ waiters[w].editor = op.id
          /\ waiters[w].then
          /\ waiters[w].saves = 1
          /\ Settled(w)
          /\ waiters[w].resolved # Str(op.file)

(* ----------------------------------------------------------------------- *)
(* C12: the first destroyed or path-changed signal of its document         *)
(* disposes the child scope of a waitToSave waiter and takes both its      *)
(* listeners off; the future is settled in that step only by a             *)
(* path-changed signal; a reset disposes the scope and takes the           *)
(* listeners off as well; a waiter whose scope was disposed unsettled      *)
(* stays unsettled whatever is delivered later.                            *)
C12_FirstSignalDisposesScope ==
    [][\A w \in SaveWaiters :
          /\ (~waiters[w].disposed /\ Signalled(op', w)) =>
                /\ waiters'[w].disposed
                /\ ~ListensOn(editors', w)
                /\ CdToken(w) \notin disposables'.members
                /\ waiters'[w].resolved =
                      IF op'.name = "didChangePath" THEN Str(op'.file) ELSE Null
          /\ op'.name = "reset" =>
                /\ waiters'[w].disposed
                /\ ~ListensOn(editors', w)
                /\ waiters'[w].resolved = waiters[w].resolved
          /\ (waiters[w].disposed /\ ~Settled(w)) =>
                /\ waiters'[w].resolved = Null
                /\ \A n \in 1..Len(log') : log'[n].h # WaiterNames[w]]_vars

(* A path-changed signal was delivered for a document with two waiters     *)
(* left unsettled: one disposed by a reset, the other by the document's    *)
(* destruction.                                                            *)
C12_Witness ==
    /\ op.name = "didChangePath"
    /\ editors[op.id].destroyed
    /\ \E v, w \in SaveWaiters :
          /\ waiters[v].editor = op.id /\ waiters[w].editor = op.id
          /\ waiters[v].old /\ ~Settled(v) /\ waiters[v].disposed
          /\ ~waiters[w].old /\ ~Settled(w) /\ waiters[w].disposed

(* ----------------------------------------------------------------------- *)
OpenWaiters == {w \in 1..Len(waiters) : waiters[w].kind = "open"}
OpenFileHandlers(em) == em.handlersByEventName["open-file"]
ChildScopes(set) == {m \in set.members : m.kind = "cd"}

(* C13: once waitToOpen has resolved, the closure it subscribed is no      *)
(* longer registered for open-file on the hub.                             *)
C13_ScopeGoneAfterResolve ==
    \A w \in OpenWaiters :
        Settled(w) =>
            \A n \in 1..Len(OpenFileHandlers(emitter)) :
                OpenFileHandlers(emitter)[n].fn.h # WaiterNames[w]

(* ----------------------------------------------------------------------- *)
(* C14: the set in use holds the child scope of a waiter call exactly      *)
(* when the call was made since the last reset and its scope is not        *)
(* disposed; so once every waiter has settled or lost its document the     *)
(* set holds no child scope, and the waiters' steps leave its other        *)
(* members as they were.                                                   *)
C14_NoAccumulation ==
    [][/\ \A w \in 1..Len(waiters') :
             (CdToken(w) \in disposables'.members)
                 <=> (~waiters'[w].old /\ ~waiters'[w].disposed)
       /\ ChildScopes(disposables') \subseteq {CdToken(w) : w \in 1..Len(waiters')}
       /\ (\A w \in 1..Len(waiters') : waiters'[w].disposed) => ChildScopes(disposables') = {}
       /\ op'.name # "reset" =>
             disposables'.members \ ChildScopes(disposables')
                 = disposables.members \ ChildScopes(disposables)]_vars

(* Two waiter calls made since the last reset have both settled, a         *)
(* waitToOpen by resolution and a waitToSave by its document's             *)
(* destruction, and the set holds no child scope.                          *)
C14_Witness ==
    /\ ChildScopes(disposables) = {}
    /\ \E v \in OpenWaiters, w \in SaveWaiters :
          /\ ~waiters[v].old /\ Settled(v) /\ waiters[v].disposed
          /\ ~waiters[w].old /\ ~Settled(w) /\ waiters[w].disposed

(* ----------------------------------------------------------------------- *)
ActivePatches(ps) == {p \in 1..Len(ps) : ~ps[p].disposed}

(* C15: every undisposed restoring capability made by fixOffset is the     *)
(* one held in restoreOffset and is a member of the set in use, so there   *)
(* is at most one; a capability that a fixOffset or reset call disposes    *)
(* has written the offset it captured back to its rule when the call       *)
(* returns; after two fixOffset calls in succession, of                    *)
(* which the first found a rule, exactly one capability is active: the     *)
(* first call's when the second found nothing to patch, else the second    *)
(* call's, and it holds the non-empty offset that call captured.           *)
C15_OneActivePatch ==
    [][/\ \A p \in ActivePatches(patches') :
             /\ p = restoreOffset'
             /\ PatchToken(p) \in disposables'.members
             /\ patches'[p].offset # ""
       /\ op'.name \in {"fixOffset", "reset"} =>
             \A p \in ActivePatches(patches) :
                 patches'[p].disposed => tops'[patches[p].rule] = patches[p].offset
       /\ (op.name = "fixOffset" /\ op.rule # 0 /\ op'.name = "fixOffset") =>
             /\ Cardinality(ActivePatches(patches')) = 1
             /\ LET p == restoreOffset'
                IN IF op'.rule = 0
                   THEN patches'[p] = [rule |-> op.rule, offset |-> op.offset, disposed |-> FALSE]
                   ELSE patches'[p] = [rule |-> op'.rule, offset |-> op'.offset, disposed |-> FALSE]]_vars

(* A fixOffset call has replaced the capability of the call before it:     *)
(* the earlier one is disposed and its rule has its offset back, the new   *)
(* one is the only active one.                                             *)
C15_Witness ==
    /\ op.name = "fixOffset"
    /\ op.rule # 0
    /\ op.active
    /\ patches[op.prev].disposed
    /\ tops[patches[op.prev].rule] = patches[op.prev].offset
    /\ ActivePatches(patches) = {restoreOffset}
    /\ restoreOffset # op.prev

(* ----------------------------------------------------------------------- *)
(* C18: a fixOffset call that finds a rule while a previous capability is  *)
(* active leaves the matched rule's top empty, the previous capability     *)
(* disposed and the new one holding the offset this call captured.         *)
C18_PreviousDisposedFirst ==
    (op.name = "fixOffset" /\ op.rule # 0 /\ op.active) =>
        /\ patches[op.prev].disposed
        /\ tops[op.rule] = ""
        /\ patches[restoreOffset] = [rule |-> op.rule, offset |-> op.offset, disposed |-> FALSE]

(* ----------------------------------------------------------------------- *)
(* C16: the hub and the set the UI object holds are undisposed, and every  *)
(* hub and set it held before is disposed, as is every handle from before  *)
(* the latest reset bound to a disposed hub; a reset call raises no error  *)
(* and leaves a hub without handlers and a set without members.            *)
C16_OneLivePair ==
    [][/\ ~emitter'.disposed
       /\ ~disposables'.disposed
       /\ retired'.emitters \subseteq {TRUE}
       /\ retired'.sets \subseteq {TRUE}
       /\ \A k \in 1..Len(handles') : handles'[k].live <=> ~handles'[k].old
       /\ op'.name = "reset" =>
             /\ error' = "none"
             /\ emitter' = NewEmitter
             /\ disposables' = NewCompositeDisposable
             /\ retired'.emitters = {TRUE}
             /\ retired'.sets = {TRUE}]_vars

(* A reset has returned after init, a client's subscription, a waiter and *)
(* a style patch had filled the hub and the set.                           *)
C16_Witness ==
    /\ op.name = "reset"
    /\ projects.t = "array"
    /\ Len(handles) >= 2
    /\ handles[1].fn.w = 0 /\ ~IsWaiterFn(handles[1].fn.h)
    /\ waiters # <<>>
    /\ patches # <<>>
    /\ \A p \in 1..Len(patches) : patches[p].disposed

(* ----------------------------------------------------------------------- *)
(* C17: disposing a handle whose hub a reset has disposed raises no error  *)
(* and changes nothing but the handle's own disposed flag; the hub in use  *)
(* keeps every registration, also one of the same function for the same    *)
(* event name.                                                             *)
C17_StaleHandleDisposal ==
    [][(op'.name = "dispose" /\ ~handles[op'.k].live) =>
          /\ error' = "none"
          /\ log' = <<>>
          /\ emitter' = emitter
          /\ handles' = [handles EXCEPT ![op'.k].disposed = TRUE]
          /\ UNCHANGED <<delayNext, disposables, immediates>>]_vars

(* A handle from before a reset was disposed for the first time while the  *)
(* hub in use holds a registration of the same function for the same       *)
(* event name.                                                             *)
C17_Witness ==
    /\ op.name = "dispose"
    /\ ~op.again
    /\ ~handles[op.k].live
    /\ \E n \in 1..Len(emitter.handlersByEventName[handles[op.k].ev]) :
          emitter.handlersByEventName[handles[op.k].ev][n].fn = handles[op.k].fn

(* ----------------------------------------------------------------------- *)
Emission(ev, value) == [ev |-> ev, value |-> value, projects |-> projects]

(* What one observer emits for one delivered document.                     *)
OpenedEmissions(eds, i) ==
    <<Emission("open-editor", EditorRef(i)),
      Emission(IF eds[i].path # "" THEN "open-file" ELSE "open-blank", EditorRef(i))>>

RECURSIVE Repeated(_, _)
Repeated(q, n) == IF n = 0 THEN <<>> ELSE q \o Repeated(q, n - 1)

RECURSIVE OpenedEmissionsOfAll(_, _)
OpenedEmissionsOfAll(eds, i) ==
    IF i > Len(eds) THEN <<>>
    ELSE (IF eds[i].destroyed THEN <<>> ELSE OpenedEmissions(eds, i)) \o OpenedEmissionsOfAll(eds, i + 1)

NotArchive(e) == e.ev # "open-archive"
Blank(eds) == {i \in 1..Len(eds) : ~eds[i].destroyed /\ eds[i].path = ""}

(* The continuations a path change of document i queues: one for each      *)
(* waiter of observe still listening on it, in the order they were added.  *)
RECURSIVE Continuations(_, _, _)
Continuations(ws, i, file) ==
    IF ws = <<>> THEN <<>>
    ELSE (IF waiters[Head(ws)].then THEN <<[w |-> Head(ws), file |-> file, editor |-> i]>> ELSE <<>>)
            \o Continuations(Tail(ws), i, file)

ObserveSafety ==
    /\ op'.name = "openEditor" =>
          /\ emitted' = Repeated(OpenedEmissions(editors', op'.id), Cardinality(TextEditorObservers))
          /\ Len(waiters') = Len(waiters)
                + (IF editors'[op'.id].path = "" THEN Cardinality(TextEditorObservers) ELSE 0)
          /\ microtasks' = microtasks
    /\ op'.name = "observe" =>
          /\ SelectSeq(emitted', NotArchive) = OpenedEmissionsOfAll(editors, 1)
          /\ Len(waiters') = Len(waiters) + Cardinality(Blank(editors))
          /\ microtasks' = microtasks
    /\ op'.name = "didChangePath" =>
          /\ emitted' = <<>>
          /\ microtasks' = microtasks
                \o Continuations(editors[op'.id].onDidChangePath, op'.id, Str(op'.file))
    /\ op'.name = "didDestroy" =>
          /\ emitted' = <<>>
          /\ microtasks' = microtasks
    /\ op'.name = "microtask" =>
          LET t == Head(microtasks)
          IN /\ emitted' = <<Emission("save-new-file",
                                      [t |-> "object", file |-> t.file, editor |-> EditorRef(t.editor)]),
                             Emission("open-file", EditorRef(t.editor))>>
             /\ microtasks' = Tail(microtasks)
             /\ waiters[t.w].resolved = t.file
    /\ \A w \in SaveWaiters :
          /\ waiters'[w].saves <= 1
          /\ (waiters'[w].saves + Queued(microtasks', w) > 0) => waiters'[w].resolved # Null
          /\ waiters'[w].saves + Queued(microtasks', w) <= 1
          /\ (waiters[w].disposed /\ ~Settled(w)) => waiters'[w].resolved = Null

(* C19: a document delivered to an observer of observe() makes it emit     *)
(* open-editor and then, in the same call, open-file if the document has   *)
(* a path, else open-blank; the first path change of a blank document      *)
(* whose waiter still listens emits nothing itself and queues one          *)
(* continuation, which later emits one save-new-file with {file, editor}   *)
(* followed at once by one open-file for the document; a waiter disposed   *)
(* unsettled, as by its document's destruction, never emits either.        *)
C19_DocumentEvents == [][ObserveSafety]_vars

(* The continuation of a blank document's waiter has emitted               *)
(* save-new-file and open-file, and the subscribed handler has received    *)
(* the payload.                                                            *)
C19_Witness ==
    /\ op.name = "microtask"
    /\ Len(emitted) = 2
    /\ emitted[1].ev = "save-new-file"
    /\ emitted[1].value.file = waiters[op.w].resolved
    /\ emitted[2].ev = "open-file"
    /\ waiters[op.w].saves = 1
    /\ Len(log) = 1
    /\ log[1].arg = emitted[1].value

(* ----------------------------------------------------------------------- *)
PatchedRules(ps) == {ps[p].rule : p \in ActivePatches(ps)}

(* C20: a reset call leaves the stored project list and brightness flag    *)
(* as they are and emits nothing; of the style rules it changes only the   *)
(* one an active patch holds, which gets its offset back.  Only init sets  *)
(* the flag, and only init and setProjects set the list; init sets them to *)
(* the empty list and false and emits nothing.  So a setProjects call      *)
(* right after a reset with the stored list emits nothing, and one right   *)
(* after an init with a non-empty list emits projects-available and then   *)
(* projects-changed with from = [].                                        *)
C20_ResetFrame ==
    [][/\ op'.name = "reset" =>
             /\ projects' = projects
             /\ lightTheme' = lightTheme
             /\ delayNext' = delayNext
             /\ emitted' = <<>>
             /\ \A p \in ActivePatches(patches) :
                   patches'[p].disposed /\ tops'[patches[p].rule] = patches[p].offset
             /\ \A r \in 1..Len(tops) : r \notin PatchedRules(patches) => tops'[r] = tops[r]
       /\ op'.name = "init" =>
             /\ projects' = Arr(<<>>)
             /\ lightTheme' = Bool(FALSE)
             /\ emitted' = <<>>
             /\ log' = <<>>
       /\ projects' # projects => op'.name \in {"init", "setProjects"}
       /\ lightTheme' # lightTheme => op'.name = "init"
       /\ (op.name = "reset" /\ op'.name = "setProjects"
              /\ projects.t = "array" /\ op'.to = projects.v) =>
             /\ emitted' = <<>>
             /\ projects' = projects
       /\ (op.name = "init" /\ op'.name = "setProjects" /\ op'.to # <<>>) =>
             /\ projects' = Arr(op'.to)
             /\ emitted' = <<[ev |-> "projects-available", value |-> Undefined,
                              projects |-> Arr(op'.to)],
                             [ev |-> "projects-changed", value |-> Change(<<>>, op'.to),
                              projects |-> Arr(op'.to)]>>]_vars

(* After a reset and an init following it, a setProjects call with a       *)
(* non-empty list has emitted projects-available and projects-changed      *)
(* with from = [].                                                         *)
C20_Witness ==
    /\ op.name = "setProjects"
    /\ op.from = Arr(<<>>)
    /\ op.to = <<PathA>>
    /\ Len(emitted) = 2
    /\ emitted[2].value = Change(<<>>, <<PathA>>)
    /\ retired.sets = {TRUE}
    /\ \E m \in disposables.members : m.kind = "onDidChangePaths"

====
